---- MODULE Spec2Model ----
(***************************************************************************)
(* A model of the style-spec expression facade (createExpression), the     *)
(* let construct, the zoom-curve analysis (findZoomCurve) and the legacy   *)
(* filter compiler (createFilter / convertFilter) of mapbox-gl-js.         *)
(*                                                                         *)
(* JSON input is modelled as a tagged tree (Lit / Arr), runtime values as  *)
(* records V(kind, number, string), parsed expressions as uniform node     *)
(* records.  Parsing context, evaluation context and the built-in          *)
(* operators are not part of the three source files; they are modelled     *)
(* from the specification text and marked so in the model map.             *)
(***************************************************************************)
EXTENDS Integers, Sequences, FiniteSets, TLC

VARIABLES request, compiled, evaluator, warningHistory, console, hasConsole,
          lastParsed, lastCall

vars == <<request, compiled, evaluator, warningHistory, console, hasConsole,
          lastParsed, lastCall>>

----------------------------------------------------------------------------
(* Runtime values                                                          *)

V(k, n, s) == [k |-> k, n |-> n, s |-> s]

NullV == V("Null", 0, "")

\* JavaScript undefined: an absent property, id or argument
Undef == V("Undefined", 0, "")

Num(n) == V("Number", n, "")

Str(s) == V("String", 0, s)

Bool(b) == V("Boolean", IF b THEN 1 ELSE 0, "")

\* a Color value, n standing for its packed rgba components
ColorV(c) == V("Color", c, "")

\* typeOf(value).kind
typeOf(value) == value.k

\* the JavaScript typeof operator on a JSON literal
JsTypeof(value) ==
    CASE value.k = "Number" -> "number"
      [] value.k = "String" -> "string"
      [] value.k = "Boolean" -> "boolean"
      [] value.k = "Undefined" -> "undefined"
      [] OTHER -> "object"

\* unwrap: a Color becomes its plain rgba array, anything else is itself
unwrap(value) ==
    IF value.k = "Color" THEN V("Array", value.n, "") ELSE value

----------------------------------------------------------------------------
(* JSON trees: the raw expressions and the legacy filters                  *)

Lit(v) == [j |-> "lit", v |-> v, items |-> <<>>]

Arr(items) == [j |-> "arr", v |-> NullV, items |-> items]

S(str) == Lit(Str(str))

TrueLit == Lit(Bool(TRUE))

FalseLit == Lit(Bool(FALSE))

\* array.slice(from) with a 0-based index
Slice(seq, from) == SubSeq(seq, from + 1, Len(seq))

\* 0-based element access, undefined past the end
At(seq, i) == IF i + 1 <= Len(seq) THEN seq[i + 1] ELSE Lit(Undef)

----------------------------------------------------------------------------
(* Legacy filter compiler (feature_filter/index.js)                        *)

compileNegation(filter) == Arr(<<S("!"), filter>>)

\* variant: $id looked up as an ordinary property
compileHasOpGeneric(property) ==
    IF property = "$type" THEN TrueLit ELSE Arr(<<S("has"), S(property)>>)

compileHasOp(property) ==
    IF property = "$id"
    THEN Arr(<<S("!="), Arr(<<S("typeof"), Arr(<<S("id")>>)>>), S("Null")>>)
    ELSE IF property = "$type"
    THEN TrueLit
    ELSE Arr(<<S("has"), S(property)>>)

\* type = "" stands for the omitted optional argument
compilePropertyReference(property, type) ==
    IF property = "$type"
    THEN Arr(<<S("geometry-type")>>)
    ELSE LET ref == IF property = "$id" THEN Arr(<<S("id")>>)
                    ELSE Arr(<<S("get"), S(property)>>)
         IN IF type # "" THEN Arr(<<S(type), ref>>) ELSE ref

\* variant: != compares the typed reference without the typeof guard
compileComparisonOpUnguarded(property, value, op) ==
    LET untypedReference == compilePropertyReference(property, "")
        typedReference == compilePropertyReference(property, JsTypeof(value))
        typeofRef == Arr(<<S("typeof"), untypedReference>>)
        expression == Arr(<<S("&&"), compileHasOp(property),
                            Arr(<<S("=="), typeofRef, S("Null")>>)>>)
    IN IF value = NullV
       THEN IF op = "!=" THEN Arr(<<S("!"), expression>>) ELSE expression
       ELSE IF op = "!="
       THEN Arr(<<S("!="), typedReference, Lit(value)>>)
       ELSE Arr(<<S("&&"),
                  Arr(<<S("=="), typeofRef, S(typeOf(value))>>),
                  Arr(<<S(op), typedReference, Lit(value)>>)>>)

compileComparisonOp(property, value, op) ==
    LET untypedReference == compilePropertyReference(property, "")
        typedReference == compilePropertyReference(property, JsTypeof(value))
        typeofRef == Arr(<<S("typeof"), untypedReference>>)
        expression == Arr(<<S("&&"), compileHasOp(property),
                            Arr(<<S("=="), typeofRef, S("Null")>>)>>)
        type == typeOf(value)
    IN IF value = NullV
       THEN IF op = "!=" THEN Arr(<<S("!"), expression>>) ELSE expression
       ELSE IF op = "!="
       THEN Arr(<<S("||"),
                  Arr(<<S("!="), typeofRef, S(type)>>),
                  Arr(<<S("!="), typedReference, Lit(value)>>)>>)
       ELSE Arr(<<S("&&"),
                  Arr(<<S("=="), typeofRef, S(type)>>),
                  Arr(<<S(op), typedReference, Lit(value)>>)>>)

\* the index of the first value of a type
FirstOfType(values, type) ==
    CHOOSE i \in 1..Len(values) :
        /\ typeOf(values[i].v) = type
        /\ \A k \in 1..(i - 1) : typeOf(values[k].v) # type

\* the keys of valuesByType, in insertion order
RECURSIVE TypesInOrder(_, _)
TypesInOrder(values, types) ==
    IF types = {} THEN <<>>
    ELSE LET first == CHOOSE t \in types :
                        \A u \in types : FirstOfType(values, t) <= FirstOfType(values, u)
         IN <<first>> \o TypesInOrder(values, types \ {first})

\* variant: a later value of a type overwrites the earlier ones
valuesByTypeOverwrite(values, type) ==
    LET last == CHOOSE i \in 1..Len(values) :
                    /\ typeOf(values[i].v) = type
                    /\ \A k \in (i + 1)..Len(values) : typeOf(values[k].v) # type
    IN <<values[last]>>

\* valuesByType[type]
valuesByType(values, type) ==
    LET OfType(value) == typeOf(value.v) = type
    IN SelectSeq(values, OfType)

VarInput == Arr(<<S("var"), S("input")>>)

\* the label/branch pair pushed to match for one type
MatchBranch(values, type) ==
    <<S(type),
      IF type = "Null" THEN TrueLit
      ELSE Arr(<<S("match"), VarInput, Arr(valuesByType(values, type)), TrueLit, FalseLit>>)>>

RECURSIVE MatchBranches(_, _, _)
MatchBranches(values, types, i) ==
    IF i > Len(types) THEN <<>>
    ELSE MatchBranch(values, types[i]) \o MatchBranches(values, types, i + 1)

\* the expression built for a non-empty value list
InExpression(property, values) ==
    LET input == compilePropertyReference(property, "")
        typeofInput == Arr(<<S("typeof"), VarInput>>)
        match == <<S("match"), typeofInput>>
                    \o MatchBranches(values,
                            TypesInOrder(values,
                                {typeOf(values[i].v) : i \in 1..Len(values)}), 1)
    IN Arr(<<S("let"), S("input"), input,
             IF Len(match) = 4
             THEN Arr(<<S("&&"),
                        Arr(<<S("=="), typeofInput, match[3]>>),
                        match[4]>>)
             ELSE Arr(match)>>)

\* variant: above 200 operands a single untyped match over all values
compileInOpBySize(property, values) ==
    IF Len(values) = 0 THEN FalseLit
    ELSE IF Len(values) > 200
    THEN Arr(<<S("match"), compilePropertyReference(property, ""), Arr(values),
               TrueLit, FalseLit>>)
    ELSE InExpression(property, values)

compileInOp(property, values) ==
    IF Len(values) = 0 THEN FalseLit ELSE InExpression(property, values)

RECURSIVE convertFilter(_)
compileDisjunctionOp(filters) ==
    Arr(<<S("||")>> \o [i \in 1..Len(filters) |-> convertFilter(filters[i])])

convertFilter(filter) ==
    IF filter.j = "lit"
    THEN TrueLit
    ELSE LET op == At(filter.items, 0).v.s
             f1 == At(filter.items, 1).v.s
             f2 == At(filter.items, 2).v
             rest == Slice(filter.items, 1)
         IN IF Len(filter.items) <= 1 THEN Lit(Bool(op # "any"))
            ELSE CASE op = "==" -> compileComparisonOp(f1, f2, "==")
                   [] op = "!=" -> compileComparisonOp(f1, f2, "!=")
                   [] op \in {"<", ">", "<=", ">="} -> compileComparisonOp(f1, f2, op)
                   [] op = "any" -> compileDisjunctionOp(rest)
                   [] op = "all" ->
                        Arr(<<S("&&")>> \o
                            [i \in 1..Len(rest) |-> convertFilter(rest[i])])
                   [] op = "none" ->
                        Arr(<<S("&&")>> \o
                            [i \in 1..Len(rest) |->
                                compileNegation(convertFilter(rest[i]))])
                   [] op = "in" -> compileInOp(f1, Slice(filter.items, 2))
                   [] op = "!in" ->
                        compileNegation(compileInOp(f1, Slice(filter.items, 2)))
                   [] op = "has" -> compileHasOp(f1)
                   [] op = "!has" -> compileNegation(compileHasOp(f1))
                   [] OTHER -> TrueLit

----------------------------------------------------------------------------
(* Parsed expressions                                                      *)

Node(kind, name, args, val, names, labels, type, key) ==
    [node |-> kind, name |-> name, args |-> args, val |-> val,
     names |-> names, labels |-> labels, type |-> type, key |-> key]

NoNode == Node("none", "", <<>>, NullV, <<>>, <<>>, "", <<>>)

\* the operators of the compound-expression registry that the model covers
CompoundNames ==
    {"get", "has", "id", "geometry-type", "zoom", "typeof", "==", "!=",
     "<", ">", "<=", ">=", "!", "&&", "||", "+"}

AssertionNames == {"number", "string", "boolean"}

definitions ==
    CompoundNames \cup AssertionNames \cup {"let", "var", "coalesce", "match", "curve"}

AssertedType(name) ==
    CASE name = "number" -> "Number"
      [] name = "string" -> "String"
      [] OTHER -> "Boolean"

\* names that /[^a-zA-Z0-9_]/ rejects, among the names the inputs use
InvalidNames == {"a-b", "$x"}

ParseOk(node) == [ok |-> TRUE, node |-> node, errors |-> <<>>]

ParseError(key, message) ==
    [ok |-> FALSE, node |-> NoNode,
     errors |-> <<[key |-> key, message |-> message]>>]

ParseErrors(errors) == [ok |-> FALSE, node |-> NoNode, errors |-> errors]

RECURSIVE ConcatErrors(_, _)
ConcatErrors(results, i) ==
    IF i > Len(results) THEN <<>>
    ELSE results[i].errors \o ConcatErrors(results, i + 1)

AllOk(results) == \A i \in 1..Len(results) : results[i].ok

NodesOf(results) == [i \in 1..Len(results) |-> results[i].node]

\* the type a node is checked against: assertion wrapping of a Value where a
\* primitive is expected, an error on any other mismatch
Annotate(res, expected, key) ==
    IF ~res.ok \/ expected = "" \/ expected = "Value" \/ res.node.type = expected
    THEN res
    ELSE IF res.node.type = "Value" /\ expected \in {"String", "Number", "Boolean"}
    THEN ParseOk(Node("Assertion", "", <<res.node>>, NullV, <<>>, <<>>, expected, key))
    ELSE ParseError(key, "Expected type mismatch")

\* the innermost binding of name in the lexical scope, 0 when there is none
ScopeIndex(scope, name) ==
    IF \E i \in 1..Len(scope) : scope[i].name = name
    THEN CHOOSE i \in 1..Len(scope) :
            /\ scope[i].name = name
            /\ \A k \in (i + 1)..Len(scope) : scope[k].name # name
    ELSE 0

CompoundArity(name) ==
    CASE name \in {"id", "geometry-type", "zoom"} -> {0}
      [] name \in {"get", "has", "typeof", "!"} -> {1}
      [] name \in {"==", "!=", "<", ">", "<=", ">="} -> {2}
      [] OTHER -> 0..8

CompoundParamType(name) ==
    CASE name \in {"get", "has"} -> "String"
      [] name \in {"!", "&&", "||"} -> "Boolean"
      [] name = "+" -> "Number"
      [] OTHER -> ""

CompoundType(name) ==
    CASE name \in {"get", "id"} -> "Value"
      [] name \in {"geometry-type", "typeof"} -> "String"
      [] name \in {"zoom", "+"} -> "Number"
      [] OTHER -> "Boolean"

LabelValues(raw) ==
    IF raw.j = "arr" THEN [m \in 1..Len(raw.items) |-> raw.items[m].v]
    ELSE <<raw.v>>

LabelsValid(labels) ==
    /\ \A i \in 1..Len(labels) : Len(labels[i]) > 0
    /\ \A i \in 1..Len(labels) : \A m \in 1..Len(labels[i]) :
            /\ labels[i][m].k \in {"Number", "String"}
            /\ labels[i][m].k = labels[1][1].k

RECURSIVE Parse(_, _, _, _)
RECURSIVE LetBindings(_, _, _, _, _)
RECURSIVE LetBindingsSequential(_, _, _, _, _)

ParseEach(raws, offset, step, key, expected, scope) ==
    [i \in 1..Len(raws) |->
        Parse(raws[i], Append(key, offset + step * (i - 1)), expected, scope)]

\* variant: an initializer also sees the bindings declared before it
LetBindingsSequential(args, i, key, scope, acc) ==
    IF ~(i < Len(args) - 1) THEN acc
    ELSE LET name == At(args, i)
             value == Parse(At(args, i + 1), Append(key, i + 1), "",
                            scope \o [k \in 1..Len(acc.names) |->
                                         [name |-> acc.names[k],
                                          type |-> acc.exprs[k].type]])
         IN IF name.j # "lit" \/ name.v.k # "String" \/ name.v.s \in InvalidNames
            THEN [acc EXCEPT !.ok = FALSE,
                    !.errors = <<[key |-> Append(key, i), message |-> "Expected string"]>>]
            ELSE IF ~value.ok
            THEN [acc EXCEPT !.ok = FALSE, !.errors = value.errors]
            ELSE LetBindingsSequential(args, i + 2, key, scope,
                    [acc EXCEPT !.names = Append(@, name.v.s),
                                !.exprs = Append(@, value.node)])

\* Let.parse (definitions/let.js): every initializer is parsed in the
\* enclosing context, the result in the context extended by all bindings
LetBindings(args, i, key, scope, acc) ==
    IF ~(i < Len(args) - 1) THEN acc
    ELSE LET name == At(args, i)
             value == Parse(At(args, i + 1), Append(key, i + 1), "", scope)
         IN IF name.j # "lit" \/ name.v.k # "String"
            THEN [acc EXCEPT !.ok = FALSE,
                    !.errors = <<[key |-> Append(key, i), message |-> "Expected string"]>>]
            ELSE IF name.v.s \in InvalidNames
            THEN [acc EXCEPT !.ok = FALSE,
                    !.errors = <<[key |-> Append(key, i),
                                  message |-> "Variable names must contain only alphanumeric characters or '_'."]>>]
            ELSE IF ~value.ok
            THEN [acc EXCEPT !.ok = FALSE, !.errors = value.errors]
            ELSE LetBindings(args, i + 2, key, scope,
                    [acc EXCEPT !.names = Append(@, name.v.s),
                                !.exprs = Append(@, value.node)])

LetParse(args, key, scope) ==
    IF Len(args) < 4
    THEN ParseError(key, "Expected at least 3 arguments")
    ELSE LET bindings == LetBindings(args, 1, key, scope,
                            [ok |-> TRUE, names |-> <<>>, exprs |-> <<>>, errors |-> <<>>])
             last == Len(args) - 1
             result == Parse(At(args, last), Append(key, last), "",
                             scope \o [i \in 1..Len(bindings.names) |->
                                          [name |-> bindings.names[i],
                                           type |-> bindings.exprs[i].type]])
         IN IF ~bindings.ok THEN ParseErrors(bindings.errors)
            ELSE IF ~result.ok THEN ParseErrors(result.errors)
            ELSE ParseOk(Node("Let", "", Append(bindings.exprs, result.node), NullV,
                              bindings.names, <<>>, result.node.type, key))

VarParse(args, key, scope) ==
    LET name == At(args, 1)
        i == ScopeIndex(scope, name.v.s)
    IN IF Len(args) # 2 \/ name.j # "lit" \/ name.v.k # "String"
       THEN ParseError(key, "'var' expression requires exactly one string literal argument.")
       ELSE IF i = 0
       THEN ParseError(Append(key, 1), "Unknown variable")
       ELSE ParseOk(Node("Var", name.v.s, <<>>, NullV, <<>>, <<>>, scope[i].type, key))

CoalesceParse(args, key, expected, scope) ==
    LET parsed == ParseEach(Slice(args, 1), 1, 1, key, expected, scope)
    IN IF Len(args) < 2 THEN ParseError(key, "Expected at least one argument.")
       ELSE IF ~AllOk(parsed) THEN ParseErrors(ConcatErrors(parsed, 1))
       ELSE ParseOk(Node("Coalesce", "", NodesOf(parsed), NullV, <<>>, <<>>,
                         IF expected # "" THEN expected ELSE parsed[1].node.type, key))

MatchParse(args, key, expected, scope) ==
    LET n == Len(args)
        k == (n - 3) \div 2
        labels == [i \in 1..k |-> LabelValues(args[2 * i + 1])]
        input == Parse(args[2], Append(key, 1), labels[1][1].k, scope)
        outputs == ParseEach([i \in 1..k |-> args[2 * i + 2]], 3, 2, key, expected, scope)
        otherwise == Parse(args[n], Append(key, n - 1), expected, scope)
        all == <<input>> \o outputs \o <<otherwise>>
    IN IF n < 5 THEN ParseError(key, "Expected at least 4 arguments")
       ELSE IF n % 2 # 1 THEN ParseError(key, "Expected an even number of arguments.")
       ELSE IF ~LabelsValid(labels)
       THEN ParseError(key, "Branch labels must be numbers or strings of one type.")
       ELSE IF ~AllOk(all) THEN ParseErrors(ConcatErrors(all, 1))
       ELSE ParseOk(Node("Match", "", NodesOf(all), NullV, <<>>, labels,
                         IF expected # "" THEN expected ELSE outputs[1].node.type, key))

CurveParse(args, key, expected, scope) ==
    LET n == Len(args)
        k == (n - 3) \div 2
        interpolation == args[2]
        labels == [i \in 1..k |-> <<args[2 * i + 2].v>>]
        input == Parse(args[3], Append(key, 2), "Number", scope)
        outputs == ParseEach([i \in 1..k |-> args[2 * i + 3]], 4, 2, key, expected, scope)
        all == <<input>> \o outputs
    IN IF n < 5 \/ (n - 3) % 2 # 0
       THEN ParseError(key, "Expected at least 4 arguments and an even number of stops")
       ELSE IF interpolation.j # "arr" \/ Len(interpolation.items) = 0
               \/ interpolation.items[1].v.s \notin {"step", "linear", "exponential"}
       THEN ParseError(Append(key, 1), "Unknown interpolation type")
       ELSE IF \E i \in 1..k : args[2 * i + 2].j # "lit" \/ labels[i][1].k # "Number"
       THEN ParseError(key, "Input/output pairs for curve expressions must be defined using literal numeric values")
       ELSE IF \E i \in 1..(k - 1) : labels[i][1].n >= labels[i + 1][1].n
       THEN ParseError(key, "Input/output pairs for curve expressions must be arranged with input values in strictly ascending order.")
       ELSE IF ~AllOk(all) THEN ParseErrors(ConcatErrors(all, 1))
       ELSE ParseOk(Node("Curve", interpolation.items[1].v.s, NodesOf(all), NullV, <<>>,
                         labels, IF expected # "" THEN expected ELSE outputs[1].node.type,
                         key))

AssertionParse(args, key, scope) ==
    LET child == Parse(At(args, 1), Append(key, 1), "Value", scope)
    IN IF Len(args) # 2 THEN ParseError(key, "Expected one argument.")
       ELSE IF ~child.ok THEN child
       ELSE ParseOk(Node("Assertion", "", <<child.node>>, NullV, <<>>, <<>>,
                         AssertedType(args[1].v.s), key))

CompoundParse(args, key, scope) ==
    LET name == args[1].v.s
        parsed == ParseEach(Slice(args, 1), 1, 1, key, CompoundParamType(name), scope)
        comparison == name \in {"==", "!=", "<", ">", "<=", ">="}
    IN IF (Len(args) - 1) \notin CompoundArity(name)
       THEN ParseError(key, "Wrong number of arguments")
       ELSE IF ~AllOk(parsed) THEN ParseErrors(ConcatErrors(parsed, 1))
       ELSE IF comparison /\ parsed[1].node.type # parsed[2].node.type
                          /\ "Value" \notin {parsed[1].node.type, parsed[2].node.type}
       THEN ParseError(key, "Expected arguments of the same type")
       ELSE ParseOk(Node("Compound", name, NodesOf(parsed), NullV, <<>>, <<>>,
                         CompoundType(name), key))

\* ParsingContext.parse
Parse(raw, key, expected, scope) ==
    LET name == raw.items[1].v.s
        res ==
          IF raw.j = "lit"
          THEN IF raw.v.k \in {"Null", "Boolean", "Number", "String"}
               THEN ParseOk(Node("Literal", "", <<>>, raw.v, <<>>, <<>>, raw.v.k, key))
               ELSE ParseError(key, "Expected an array with at least one element.")
          ELSE IF Len(raw.items) = 0
          THEN ParseError(key, "Expected an array with at least one element.")
          ELSE IF raw.items[1].j # "lit" \/ raw.items[1].v.k # "String"
          THEN ParseError(key, "Expression name must be a string")
          ELSE IF name \notin definitions
          THEN ParseError(Append(key, 0), "Unknown expression")
          ELSE CASE name = "let" -> LetParse(raw.items, key, scope)
                 [] name = "var" -> VarParse(raw.items, key, scope)
                 [] name = "coalesce" -> CoalesceParse(raw.items, key, expected, scope)
                 [] name = "match" -> MatchParse(raw.items, key, expected, scope)
                 [] name = "curve" -> CurveParse(raw.items, key, expected, scope)
                 [] name \in AssertionNames -> AssertionParse(raw.items, key, scope)
                 [] OTHER -> CompoundParse(raw.items, key, scope)
    IN Annotate(res, expected, key)

----------------------------------------------------------------------------
(* Evaluation                                                              *)

NoMessage == <<>>

Ret(val, scope) == [thrown |-> FALSE, msg |-> NoMessage, val |-> val, scope |-> scope]

Throw(msg, scope) == [thrown |-> TRUE, msg |-> msg, val |-> NullV, scope |-> scope]

\* EvaluationContext.pushScope / popScope: a stack of binding frames
pushScope(scope, bindings) == Append(scope, bindings)

popScope(scope) == SubSeq(scope, 1, Len(scope) - 1)

HasBinding(frame, name) == \E i \in 1..Len(frame.names) : frame.names[i] = name

\* the expression bound to name in the innermost frame that binds it
getVar(scope, name) ==
    IF \E d \in 1..Len(scope) : HasBinding(scope[d], name)
    THEN LET d == CHOOSE d \in 1..Len(scope) :
                    /\ HasBinding(scope[d], name)
                    /\ \A e \in (d + 1)..Len(scope) : ~HasBinding(scope[e], name)
             i == CHOOSE i \in 1..Len(scope[d].names) :
                    /\ scope[d].names[i] = name
                    /\ \A k \in (i + 1)..Len(scope[d].names) : scope[d].names[k] # name
         IN scope[d].exprs[i]
    ELSE NoNode

PropertyKeys == {"x"}

GeometryTypeNames == <<"Point", "LineString", "Polygon">>

GetProperty(feature, name) ==
    IF name \in PropertyKeys /\ feature.properties[name] # Undef
    THEN feature.properties[name] ELSE NullV

HasProperty(feature, name) ==
    name \in PropertyKeys /\ feature.properties[name] # Undef

GeometryType(feature) ==
    IF feature.type.k = "Number" THEN Str(GeometryTypeNames[feature.type.n])
    ELSE feature.type

RECURSIVE SumOf(_, _)
SumOf(vals, i) == IF i > Len(vals) THEN 0 ELSE vals[i].n + SumOf(vals, i + 1)

\* the built-in operators on evaluated arguments
ApplyCompound(name, vals, globals, feature) ==
    CASE name = "get" -> GetProperty(feature, vals[1].s)
      [] name = "has" -> Bool(HasProperty(feature, vals[1].s))
      [] name = "id" -> IF feature.id = Undef THEN NullV ELSE feature.id
      [] name = "geometry-type" -> GeometryType(feature)
      [] name = "zoom" -> Num(globals.zoom)
      [] name = "typeof" -> Str(typeOf(vals[1]))
      [] name = "==" -> Bool(vals[1] = vals[2])
      [] name = "!=" -> Bool(vals[1] # vals[2])
      [] name = "<" -> Bool(vals[1].n < vals[2].n)
      [] name = ">" -> Bool(vals[1].n > vals[2].n)
      [] name = "<=" -> Bool(vals[1].n <= vals[2].n)
      [] name = ">=" -> Bool(vals[1].n >= vals[2].n)
      [] name = "!" -> Bool(vals[1].n = 0)
      [] OTHER -> Num(SumOf(vals, 1))

\* the stop a curve input falls on: the last label at or below it, the
\* first stop when it is below all labels
StopIndex(labels, x) ==
    IF x < labels[1][1].n THEN 1
    ELSE CHOOSE i \in 1..Len(labels) :
            /\ labels[i][1].n <= x
            /\ \A k \in (i + 1)..Len(labels) : labels[k][1].n > x

BranchIndex(labels, val) ==
    IF \E i \in 1..Len(labels) : \E m \in 1..Len(labels[i]) : labels[i][m] = val
    THEN CHOOSE i \in 1..Len(labels) :
            /\ \E m \in 1..Len(labels[i]) : labels[i][m] = val
            /\ \A k \in 1..(i - 1) : \A m \in 1..Len(labels[k]) : labels[k][m] # val
    ELSE Len(labels) + 1

RECURSIVE Eval(_, _, _, _)
RECURSIVE EvalArgs(_, _, _, _, _, _)
RECURSIVE EvalLogical(_, _, _, _, _, _)
RECURSIVE EvalCoalesce(_, _, _, _, _)

\* strict left-to-right evaluation of the arguments of a built-in
EvalArgs(args, i, globals, feature, scope, acc) ==
    IF i > Len(args)
    THEN [thrown |-> FALSE, msg |-> NoMessage, vals |-> acc, scope |-> scope]
    ELSE LET r == Eval(args[i], globals, feature, scope)
         IN IF r.thrown
            THEN [thrown |-> TRUE, msg |-> r.msg, vals |-> acc, scope |-> r.scope]
            ELSE EvalArgs(args, i + 1, globals, feature, r.scope, Append(acc, r.val))

\* short-circuiting && (isAnd) and ||
EvalLogical(args, i, globals, feature, scope, isAnd) ==
    IF i > Len(args) THEN Ret(Bool(isAnd), scope)
    ELSE LET r == Eval(args[i], globals, feature, scope)
         IN IF r.thrown THEN r
            ELSE IF isAnd /\ r.val.n = 0 THEN Ret(Bool(FALSE), r.scope)
            ELSE IF ~isAnd /\ r.val.n = 1 THEN Ret(Bool(TRUE), r.scope)
            ELSE EvalLogical(args, i + 1, globals, feature, r.scope, isAnd)

\* Coalesce.evaluate: the first argument that is neither null nor a failure
EvalCoalesce(args, i, globals, feature, scope) ==
    IF i > Len(args) THEN Ret(NullV, scope)
    ELSE LET r == Eval(args[i], globals, feature, scope)
         IN IF r.thrown \/ r.val = NullV
            THEN EvalCoalesce(args, i + 1, globals, feature, r.scope)
            ELSE r

\* Let.evaluate (definitions/let.js): push the bindings, evaluate the result,
\* pop; a failure of the result leaves before popScope is reached
LetEvaluate(node, globals, feature, scope) ==
    LET n == Len(node.names)
        r == Eval(node.args[n + 1], globals, feature,
                  pushScope(scope, [names |-> node.names,
                                    exprs |-> SubSeq(node.args, 1, n)]))
    IN IF r.thrown THEN r ELSE Ret(r.val, popScope(r.scope))

AssertionEvaluate(node, globals, feature, scope) ==
    LET r == Eval(node.args[1], globals, feature, scope)
    IN IF r.thrown \/ typeOf(r.val) = node.type THEN r
       ELSE Throw(<<"Expected value to be of type", node.type,
                    "but found", typeOf(r.val), "instead.">>, r.scope)

MatchEvaluate(node, globals, feature, scope) ==
    LET r == Eval(node.args[1], globals, feature, scope)
    IN IF r.thrown THEN r
       ELSE Eval(node.args[1 + BranchIndex(node.labels, r.val)],
                 globals, feature, r.scope)

CurveEvaluate(node, globals, feature, scope) ==
    LET r == Eval(node.args[1], globals, feature, scope)
        i == StopIndex(node.labels, r.val.n)
        lower == Eval(node.args[1 + i], globals, feature, r.scope)
        upper == Eval(node.args[2 + i], globals, feature, lower.scope)
        x0 == node.labels[i][1].n
        x1 == node.labels[i + 1][1].n
    IN IF r.thrown THEN r
       ELSE IF node.name = "step" \/ i = Len(node.labels) \/ r.val.n < x0
               \/ lower.thrown \/ lower.val.k # "Number"
       THEN lower
       ELSE IF upper.thrown THEN upper
       ELSE Ret(Num(lower.val.n
                    + ((r.val.n - x0) * (upper.val.n - lower.val.n)) \div (x1 - x0)),
                upper.scope)

CompoundEvaluate(node, globals, feature, scope) ==
    IF node.name \in {"&&", "||"}
    THEN EvalLogical(node.args, 1, globals, feature, scope, node.name = "&&")
    ELSE LET a == EvalArgs(node.args, 1, globals, feature, scope, <<>>)
         IN IF a.thrown THEN Throw(a.msg, a.scope)
            ELSE Ret(ApplyCompound(node.name, a.vals, globals, feature), a.scope)

\* expression.evaluate(ctx); the scope of the result is the scope stack the
\* context is left with
Eval(node, globals, feature, scope) ==
    CASE node.node = "Literal" -> Ret(node.val, scope)
      [] node.node = "Var" -> Eval(getVar(scope, node.name), globals, feature, scope)
      [] node.node = "Let" -> LetEvaluate(node, globals, feature, scope)
      [] node.node = "Coalesce" -> EvalCoalesce(node.args, 1, globals, feature, scope)
      [] node.node = "Assertion" -> AssertionEvaluate(node, globals, feature, scope)
      [] node.node = "Match" -> MatchEvaluate(node, globals, feature, scope)
      [] node.node = "Curve" -> CurveEvaluate(node, globals, feature, scope)
      [] node.node = "Compound" -> CompoundEvaluate(node, globals, feature, scope)
      [] OTHER -> Throw(<<"Unknown variable">>, scope)

----------------------------------------------------------------------------
(* Expression facade (expression/index.js)                                 *)

\* is_constant: a built-in named in names is reachable in the tree
RECURSIVE Mentions(_, _)
Mentions(node, names) ==
    \/ node.node = "Compound" /\ node.name \in names
    \/ \E i \in 1..Len(node.args) : Mentions(node.args[i], names)

isFeatureConstant(parsed) == ~Mentions(parsed, {"get", "has", "id", "geometry-type"})

isGlobalPropertyConstant(parsed, properties) == ~Mentions(parsed, properties)

NoCurve == [kind |-> "null", curve |-> NoNode, key |-> <<>>, error |-> ""]

FoundCurve(curve) == [kind |-> "curve", curve |-> curve, key |-> <<>>, error |-> ""]

CurveError(key, error) == [kind |-> "error", curve |-> NoNode, key |-> key, error |-> error]

MultipleCurves == "Only one zoom-based curve may be used in a style function."

TopLevelOnly == "\"zoom\" expression may only be used as input to a top-level \"curve\" expression."

RECURSIVE findZoomCurve(_)
RECURSIVE CoalesceZoomCurve(_, _, _)
RECURSIVE CoalesceZoomCurveFirstWins(_, _, _)

\* variant: the first curve found wins, later curves are ignored
CoalesceZoomCurveFirstWins(args, i, result) ==
    IF i > Len(args) THEN result
    ELSE LET e == findZoomCurve(args[i])
         IN IF e.kind = "null" THEN CoalesceZoomCurveFirstWins(args, i + 1, result)
            ELSE e

\* the loop over the arguments of a coalesce
CoalesceZoomCurve(args, i, result) ==
    IF i > Len(args) THEN result
    ELSE LET e == findZoomCurve(args[i])
         IN IF e.kind = "null" THEN CoalesceZoomCurve(args, i + 1, result)
            ELSE IF e.kind = "error" THEN e
            ELSE IF result.kind = "null" THEN CoalesceZoomCurve(args, i + 1, e)
            ELSE CurveError(e.curve.key, MultipleCurves)

findZoomCurve(expression) ==
    IF expression.node = "Curve"
    THEN LET input == expression.args[1]
         IN IF input.node = "Compound" /\ input.name = "zoom"
            THEN FoundCurve(expression) ELSE NoCurve
    ELSE IF expression.node = "Let"
    THEN findZoomCurve(expression.args[Len(expression.args)])
    ELSE IF expression.node = "Coalesce"
    THEN CoalesceZoomCurve(expression.args, 1, NoCurve)
    ELSE NoCurve

Compiled(result, context, zoomConstant, featureConstant, parsed, errors, interpolation, zoomStops, hasDefault, defaultValue) ==
    [result |-> result, context |-> context, isZoomConstant |-> zoomConstant,
     isFeatureConstant |-> featureConstant, parsed |-> parsed, errors |-> errors,
     interpolation |-> interpolation, zoomStops |-> zoomStops,
     hasDefault |-> hasDefault, defaultValue |-> defaultValue]

NotCompiled ==
    Compiled("none", "", FALSE, FALSE, NoNode, <<>>, "", <<>>, FALSE, Undef)

CompileErrors(errors) ==
    Compiled("error", "", FALSE, FALSE, NoNode, errors, "", <<>>, FALSE, Undef)

\* createExpression, up to the evaluate closure, which the Evaluate actions
\* model
createExpression(expression, options) ==
    LET parser == Parse(expression, <<>>, options.expectedType, <<>>)
        parsed == parser.node
        hasDefault == options.defaultValue # Undef
        featureConstant == isFeatureConstant(parsed)
        zoomConstant == isGlobalPropertyConstant(parsed, {"zoom"})
        zoomCurve == findZoomCurve(parsed)
    IN IF ~parser.ok THEN CompileErrors(parser.errors)
       ELSE IF zoomConstant
       THEN Compiled("success", options.context, TRUE, featureConstant, parsed, <<>>,
                     "", <<>>, hasDefault, options.defaultValue)
       ELSE IF options.context = "filter"
       THEN Compiled("success", "filter", FALSE, featureConstant, parsed, <<>>,
                     "", <<>>, hasDefault, options.defaultValue)
       ELSE IF zoomCurve.kind = "null"
       THEN CompileErrors(<<[key |-> <<>>, message |-> TopLevelOnly]>>)
       ELSE IF zoomCurve.kind # "curve"
       THEN CompileErrors(<<[key |-> zoomCurve.key, message |-> zoomCurve.error]>>)
       ELSE Compiled("success", "property", FALSE, featureConstant, parsed, <<>>,
                     zoomCurve.curve.name, zoomCurve.curve.labels,
                     hasDefault, options.defaultValue)

\* what one call of an evaluate closure does: the value or failure handed to
\* the caller, the outcome of parsed.evaluate, the scope stack left in the
\* evaluator, the warning history and the warnings written
Called(thrown, msg, val) == [called |-> TRUE, thrown |-> thrown, msg |-> msg, val |-> val]

NotCalled == [called |-> FALSE, thrown |-> FALSE, msg |-> NoMessage, val |-> NullV]

\* evaluate without a default value: failures propagate
evaluatePlain(parsed, defaultValue, history, globals, feature, scope) ==
    LET r == Eval(parsed, globals, feature, scope)
    IN [ret |-> Called(r.thrown, r.msg, r.val),
        inner |-> Called(r.thrown, r.msg, r.val),
        scope |-> r.scope, history |-> history, warnings |-> <<>>]

\* variant: no catch, a failure reaches the caller
evaluateWithDefaultUncaught(parsed, defaultValue, history, globals, feature, scope) ==
    LET r == Eval(parsed, globals, feature, scope)
    IN [ret |-> IF r.thrown THEN Called(TRUE, r.msg, NullV)
                ELSE IF r.val \in {NullV, Undef}
                THEN Called(FALSE, NoMessage, unwrap(defaultValue))
                ELSE Called(FALSE, NoMessage, unwrap(r.val)),
        inner |-> Called(r.thrown, r.msg, r.val),
        scope |-> r.scope,
        history |-> history,
        warnings |-> <<>>]

\* variant: the warning history is never consulted
evaluateWithDefaultWarnAlways(parsed, defaultValue, history, globals, feature, scope) ==
    LET r == Eval(parsed, globals, feature, scope)
    IN [ret |-> IF r.thrown \/ r.val \in {NullV, Undef}
                THEN Called(FALSE, NoMessage, unwrap(defaultValue))
                ELSE Called(FALSE, NoMessage, unwrap(r.val)),
        inner |-> Called(r.thrown, r.msg, r.val),
        scope |-> r.scope,
        history |-> IF r.thrown THEN history \cup {r.msg} ELSE history,
        warnings |-> IF r.thrown THEN <<r.msg>> ELSE <<>>]

\* evaluate with a default value: try / catch, warn once per message
evaluateWithDefault(parsed, defaultValue, history, globals, feature, scope) ==
    LET r == Eval(parsed, globals, feature, scope)
    IN [ret |-> IF r.thrown \/ r.val \in {NullV, Undef}
                THEN Called(FALSE, NoMessage, unwrap(defaultValue))
                ELSE Called(FALSE, NoMessage, unwrap(r.val)),
        inner |-> Called(r.thrown, r.msg, r.val),
        scope |-> r.scope,
        history |-> IF r.thrown THEN history \cup {r.msg} ELSE history,
        warnings |-> IF r.thrown /\ r.msg \notin history THEN <<r.msg>> ELSE <<>>]

\* the options createFilter compiles with
FilterOptions ==
    [context |-> "filter", expectedType |-> "Boolean", defaultValue |-> Bool(FALSE)]

Obj(expression) == [j |-> "obj", v |-> NullV, items |-> <<expression>>]

\* createFilter: result "always" is the constant-true filter of a missing
\* filter, result "error" stands for the Error thrown at construction
FilterExpression(filter) ==
    IF filter.j = "arr" THEN convertFilter(filter) ELSE At(filter.items, 0)

createFilter(filter) ==
    IF filter.j = "lit" /\ filter.v \in {NullV, Undef}
    THEN Compiled("always", "filter", TRUE, TRUE, NoNode, <<>>, "", <<>>, FALSE, Undef)
    ELSE createExpression(FilterExpression(filter), FilterOptions)

----------------------------------------------------------------------------
(* Inputs                                                                  *)

\* number of binding frames the scope stack may hold when a call starts
MaxScopeDepth == 2

N(n) == Lit(Num(n))

GetE(property) == Arr(<<S("get"), S(property)>>)

VarE(name) == Arr(<<S("var"), S(name)>>)

ZoomE == Arr(<<S("zoom")>>)

IdE == Arr(<<S("id")>>)

PlusE(a, b) == Arr(<<S("+"), a, b>>)

CoalesceE(a, b) == Arr(<<S("coalesce"), a, b>>)

NumberE(a) == Arr(<<S("number"), a>>)

LetE(name, init, body) == Arr(<<S("let"), S(name), init, body>>)

Let2E(name1, init1, name2, init2, body) ==
    Arr(<<S("let"), S(name1), init1, S(name2), init2, body>>)

CurveE(interpolation, input, output1, output2) ==
    Arr(<<S("curve"), Arr(<<S(interpolation)>>), input, N(0), output1, N(10), output2>>)

ZoomStep == CurveE("step", ZoomE, N(1), N(2))

ZoomLinear == CurveE("linear", ZoomE, N(0), N(10))

AssertedLet == LetE("a", GetE("x"), NumberE(VarE("a")))

NestedLet == LetE("a", GetE("x"), LetE("b", IdE, PlusE(VarE("a"), VarE("b"))))

Expressions ==
    { GetE("x"), AssertedLet, NestedLet, CoalesceE(AssertedLet, N(0)),
      PlusE(AssertedLet, AssertedLet),
      ZoomStep, ZoomLinear, CoalesceE(ZoomStep, N(0)), CoalesceE(ZoomStep, ZoomLinear),
      PlusE(ZoomStep, ZoomStep), PlusE(ZoomStep, N(1)),
      CoalesceE(ZoomStep, PlusE(ZoomLinear, N(1))), CurveE("step", ZoomE, ZoomStep, N(2)),
      LetE("a", N(1), ZoomStep), LetE("a", N(1), CoalesceE(ZoomLinear, VarE("a"))),
      CoalesceE(LetE("a", N(1), ZoomStep), ZoomLinear),
      CurveE("step", ZoomE, ZoomE, N(2)), LetE("a", ZoomE, ZoomStep),
      LetE("a", ZoomE, VarE("a")),
      CoalesceE(ZoomStep, ZoomE), CoalesceE(GetE("x"), ZoomE),
      CurveE("step", NumberE(GetE("x")), N(1), N(2)),
      CurveE("linear", PlusE(ZoomE, N(0)), N(1), N(2)),
      ZoomE, PlusE(ZoomE, N(1)),
      LetE("a-b", N(1), N(1)), Arr(<<S("let"), S("a"), N(1)>>),
      Arr(<<S("let"), N(1), N(1), N(1)>>), Arr(<<S("foo")>>), Arr(<<>>) }

Options ==
    { [context |-> "property", expectedType |-> "Number", defaultValue |-> Undef],
      [context |-> "property", expectedType |-> "Number", defaultValue |-> Num(0)],
      [context |-> "property", expectedType |-> "", defaultValue |-> ColorV(255)],
      [context |-> "filter", expectedType |-> "", defaultValue |-> NullV] }

\* lets of two bindings a and b whose initializers and result are a literal
\* or a variable reference, bare or inside a let that binds c
LetAtoms == {N(1), VarE("a"), VarE("b"), VarE("c")}

BareLets ==
    {Let2E("a", i1, "b", i2, body) : i1 \in LetAtoms, i2 \in LetAtoms, body \in LetAtoms}

LetExpressions == BareLets \cup {LetE("c", N(2), e) : e \in BareLets}

LetOptions == [context |-> "property", expectedType |-> "Number", defaultValue |-> Num(0)]

FilterProperties == {"x", "$type", "$id"}

ComparisonValues == {Num(1), Str("a"), NullV, Str("Point")}

ComparisonFilters ==
    {Arr(<<S(op), S(property), Lit(value)>>) :
        op \in {"==", "!="}, property \in FilterProperties, value \in ComparisonValues}
    \cup {Arr(<<S(op), S("x"), N(1)>>) : op \in {"<", ">", "<=", ">="}}

HasFilters ==
    {Arr(<<S(op), S(property)>>) : op \in {"has", "!has"}, property \in FilterProperties}

\* the values an in filter lists, as the sequences that enumerate a set of
\* one or two of them in either order
InValues == {Num(1), Num(2), Str("a"), NullV}

TypeValues == {Str("Point"), Str("LineString")}

BasesOf(values) ==
    {<<u>> : u \in values}
        \cup ({<<u, w>> : u, w \in values} \ {<<u, u>> : u \in values})

\* base repeated cyclically up to n operands
ListOf(base, n) == [i \in 1..n |-> Lit(base[((i - 1) % Len(base)) + 1])]

InFilter(op, property, base, n) == Arr(<<S(op), S(property)>> \o ListOf(base, n))

InFilters ==
    {InFilter(op, property, base, n) :
        op \in {"in", "!in"}, property \in {"x", "$id"},
        base \in BasesOf(InValues), n \in {1, 2, 199, 200, 201}}
    \cup {InFilter(op, "$type", base, n) :
        op \in {"in", "!in"}, base \in BasesOf(TypeValues), n \in {1, 2, 199, 200, 201}}
    \cup {Arr(<<S(op), S("x")>>) : op \in {"in", "!in"}}

CombinedFilters ==
    {Arr(<<S(op), Arr(<<S("=="), S("x"), N(1)>>), Arr(<<S("has"), S("$id")>>)>>) :
        op \in {"any", "all", "none"}}
    \cup {Arr(<<S("any")>>), Arr(<<S("all")>>), Arr(<<S("none")>>), Arr(<<>>),
          Lit(NullV), Lit(Undef), Arr(<<S("within"), S("x")>>),
          Obj(Arr(<<S("=="), NumberE(GetE("x")), N(1)>>)),
          Obj(AssertedLet), Obj(ZoomE)}

Filters == ComparisonFilters \cup HasFilters \cup InFilters \cup CombinedFilters

Zooms == {5, 10}

Features ==
    {[properties |-> [x \in PropertyKeys |-> xv], id |-> it[1], type |-> it[2]] :
        xv \in {Undef, Num(1), Str("a"), NullV},
        it \in {<<Undef, Str("Point")>>, <<Num(1), Num(2)>>}}

NoGlobals == [zoom |-> -1]

NoFeature == [properties |-> [x \in PropertyKeys |-> Undef], id |-> Undef, type |-> Undef]

NewEvaluationContext == [globals |-> NoGlobals, feature |-> NoFeature, scope |-> <<>>]

----------------------------------------------------------------------------
(* The state machine                                                       *)

NoRequest ==
    [api |-> "none", raw |-> Lit(Undef), expression |-> Lit(Undef),
     options |-> FilterOptions]

Init ==
    /\ request = NoRequest
    /\ compiled = NotCompiled
    /\ evaluator = NewEvaluationContext
    /\ warningHistory = {}
    /\ console = <<>>
    /\ hasConsole \in BOOLEAN
    /\ lastParsed = NotCalled
    /\ lastCall = NotCalled

\* a factory call: the request is recorded, the expression compiled, and the
\* new expression starts with its own evaluator and warning history
Create(api, raw, options) ==
    /\ request.api = "none"
    /\ request' = [api |-> api, raw |-> raw,
                   expression |-> IF api = "createFilter"
                                  THEN FilterExpression(raw) ELSE raw,
                   options |-> options]
    /\ compiled' = IF api = "createFilter"
                   THEN createFilter(raw) ELSE createExpression(raw, options)
    /\ evaluator' = NewEvaluationContext
    /\ warningHistory' = {}
    /\ UNCHANGED <<console, hasConsole, lastParsed, lastCall>>

CreateExpression ==
    \/ \E expression \in Expressions, options \in Options :
          Create("createExpression", expression, options)
    \/ \E expression \in LetExpressions :
          Create("createExpression", expression, LetOptions)

CreateFilter ==
    \E filter \in Filters : Create("createFilter", filter, FilterOptions)

Apply(call, globals, feature) ==
    /\ evaluator' = [globals |-> globals, feature |-> feature, scope |-> call.scope]
    /\ lastParsed' = call.inner
    /\ lastCall' = call.ret
    /\ warningHistory' = call.history
    /\ console' = IF hasConsole THEN console \o call.warnings ELSE console
    /\ UNCHANGED <<request, compiled, hasConsole>>

\* the closure of createExpression without a default value
Evaluate ==
    /\ compiled.result = "success"
    /\ ~compiled.hasDefault
    /\ Len(evaluator.scope) < MaxScopeDepth
    /\ \E zoom \in Zooms, feature \in Features :
          Apply(evaluatePlain(compiled.parsed, compiled.defaultValue, warningHistory,
                              [zoom |-> zoom], feature, evaluator.scope),
                [zoom |-> zoom], feature)

\* the closure of createExpression with a default value
EvaluateDefault ==
    /\ compiled.result = "success"
    /\ compiled.hasDefault
    /\ Len(evaluator.scope) < MaxScopeDepth
    /\ \E zoom \in Zooms, feature \in Features :
          Apply(evaluateWithDefault(compiled.parsed, compiled.defaultValue,
                                    warningHistory, [zoom |-> zoom], feature,
                                    evaluator.scope),
                [zoom |-> zoom], feature)

\* the constant-true filter createFilter returns for a missing filter
EvaluateAlways ==
    /\ compiled.result = "always"
    /\ lastCall' = Called(FALSE, NoMessage, Bool(TRUE))
    /\ UNCHANGED <<request, compiled, evaluator, warningHistory, console, hasConsole,
                   lastParsed>>

Next ==
    \/ CreateExpression
    \/ CreateFilter
    \/ Evaluate
    \/ EvaluateDefault
    \/ EvaluateAlways

Spec == Init /\ [][Next]_vars

----------------------------------------------------------------------------
(* Properties                                                              *)

Range(seq) == {seq[i] : i \in 1..Len(seq)}

NoDuplicates(seq) == \A i, k \in 1..Len(seq) : i # k => seq[i] # seq[k]

Reverse(seq) == [i \in 1..Len(seq) |-> seq[Len(seq) + 1 - i]]

RECURSIVE Total(_)
Total(seq) == IF seq = <<>> THEN 0 ELSE Head(seq) + Total(Tail(seq))

RequestOp == At(request.raw.items, 0).v.s

RequestProperty == At(request.raw.items, 1).v.s

\* the request is a legacy filter array with one of the operators ops
RequestIsFilter(ops) ==
    /\ request.api = "createFilter"
    /\ request.raw.j = "arr"
    /\ Len(request.raw.items) >= 2
    /\ RequestOp \in ops

RequestValues == [i \in 1..(Len(request.raw.items) - 2) |-> request.raw.items[i + 2].v]

\* the distinct values of a list, in order of first occurrence
DistinctValues(values) ==
    LET Fresh(i) == \A k \in 1..(i - 1) : values[k] # values[i]
        firsts == {i \in 1..Len(values) : Fresh(i)}
        Rank(i) == Cardinality({k \in firsts : k <= i})
    IN [r \in 1..Cardinality(firsts) |->
            values[CHOOSE i \in firsts : Rank(i) = r]]

\* what a caller of createFilter(filter)(globals, feature) gets: the value,
\* or a failure when the construction throws
FilterOutcome(filter, globals, feature) ==
    LET c == createFilter(filter)
    IN IF c.result = "success"
       THEN evaluateWithDefault(c.parsed, c.defaultValue, {}, globals, feature, <<>>).ret
       ELSE IF c.result = "always" THEN Called(FALSE, NoMessage, Bool(TRUE))
       ELSE Called(TRUE, <<"createFilter">>, NullV)

PositiveOp(op) ==
    CASE op = "!=" -> "=="
      [] op = "!in" -> "in"
      [] OTHER -> "has"

PositiveFilter == Arr(<<S(PositiveOp(RequestOp))>> \o Slice(request.raw.items, 1))

IsZoom(raw) == raw.j = "arr" /\ raw.items = <<S("zoom")>>

IsZoomCurve(raw) ==
    /\ raw.j = "arr"
    /\ Len(raw.items) >= 3
    /\ raw.items[1] = S("curve")
    /\ IsZoom(raw.items[3])

\* references to the zoom global anywhere in an expression
RECURSIVE ZoomRefCount(_)
ZoomRefCount(raw) ==
    IF raw.j # "arr" THEN 0
    ELSE (IF IsZoom(raw) THEN 1 ELSE 0)
         + Total([i \in 1..Len(raw.items) |-> ZoomRefCount(raw.items[i])])

\* curves anywhere in an expression whose input is the zoom global
RECURSIVE ZoomCurveCount(_)
ZoomCurveCount(raw) ==
    IF raw.j # "arr" THEN 0
    ELSE (IF IsZoomCurve(raw) THEN 1 ELSE 0)
         + Total([i \in 1..Len(raw.items) |-> ZoomCurveCount(raw.items[i])])

\* zoom curves in a legal position: reached from the root through let
\* results and coalesce arguments only
RECURSIVE TopLevelCurveCount(_)
TopLevelCurveCount(raw) ==
    IF raw.j # "arr" \/ raw.items = <<>> THEN 0
    ELSE IF IsZoomCurve(raw) THEN 1
    ELSE IF raw.items[1] = S("let") THEN TopLevelCurveCount(raw.items[Len(raw.items)])
    ELSE IF raw.items[1] = S("coalesce")
    THEN Total([i \in 1..(Len(raw.items) - 1) |-> TopLevelCurveCount(raw.items[i + 1])])
    ELSE 0

PropertyRequest ==
    /\ request.api = "createExpression"
    /\ request.options.context = "property"
    /\ Parse(request.raw, <<>>, request.options.expectedType, <<>>).ok

FailsWith(message) ==
    /\ compiled.result = "error"
    /\ compiled.errors[1].message = message

\* every variable reference names a visible binding; with sequential, an
\* initializer of a let sees the bindings declared before it in the same
\* let, without it only the enclosing scope
RECURSIVE WellScoped(_, _, _)
WellScoped(raw, names, sequential) ==
    IF raw.j # "arr" \/ raw.items = <<>> THEN TRUE
    ELSE IF raw.items[1] = S("var") THEN raw.items[2].v.s \in names
    ELSE IF raw.items[1] = S("let")
    THEN LET n == (Len(raw.items) - 2) \div 2
             Name(i) == raw.items[2 * i].v.s
         IN /\ \A i \in 1..n :
                  WellScoped(raw.items[2 * i + 1],
                             IF sequential
                             THEN names \cup {Name(k) : k \in 1..(i - 1)}
                             ELSE names,
                             sequential)
            /\ WellScoped(raw.items[Len(raw.items)],
                          names \cup {Name(k) : k \in 1..n}, sequential)
    ELSE \A i \in 2..Len(raw.items) : WellScoped(raw.items[i], names, sequential)

\* the operator that carries out the membership test of a compiled in filter
Representation(expression) ==
    LET e == IF expression.j = "arr" /\ expression.items[1] = S("!")
             THEN expression.items[2] ELSE expression
    IN IF e.j # "arr" THEN <<"literal">>
       ELSE IF e.items[1] = S("let") THEN <<"let", e.items[4].items[1].v.s>>
       ELSE <<e.items[1].v.s>>

KindsOf(values) == {typeOf(values[i]) : i \in 1..Len(values)}

----------------------------------------------------------------------------

\* C1: the scope stack is balanced across evaluate calls: it is as deep after
\* every call as it was before the first one (empty), also when the body of a
\* let raised an evaluation-time failure.
C1_ScopeBalanced == Len(evaluator.scope) = 0

\* C2: with a default value evaluate never raises: a failure or a null result
\* of the parsed expression yields the unwrapped default value, any other
\* result is returned unwrapped.
C2_DefaultNeverRaises ==
    (compiled.result = "success" /\ compiled.hasDefault /\ lastCall.called) =>
        /\ ~lastCall.thrown
        /\ lastCall.val = IF lastParsed.thrown \/ lastParsed.val \in {NullV, Undef}
                          THEN unwrap(compiled.defaultValue)
                          ELSE unwrap(lastParsed.val)
        /\ (request.raw = GetE("x") /\ request.options.defaultValue = Num(0)
            /\ evaluator.feature.properties["x"] = Undef) => lastCall.val = Num(0)

C2_Witness ==
    /\ compiled.hasDefault
    /\ compiled.defaultValue = ColorV(255)
    /\ lastCall.called
    /\ lastParsed.thrown
    /\ lastCall.val = V("Array", 255, "")

\* C3: every failure message is written to the console at most once per
\* compiled expression, and (where a console exists) every message a call
\* failed with has been written: a repeated message adds no warning, a new
\* message does.
C3_WarnOncePerMessage ==
    /\ NoDuplicates(console)
    /\ Range(console) \subseteq warningHistory
    /\ (compiled.hasDefault /\ lastParsed.thrown) =>
            /\ lastParsed.msg \in warningHistory
            /\ hasConsole => lastParsed.msg \in Range(console)
            /\ lastCall.val = unwrap(compiled.defaultValue)

C3_Witness ==
    /\ Len(console) = 2
    /\ lastParsed.thrown
    /\ lastParsed.msg = console[1]

\* C4: a compiled !=, !in or !has filter constructs exactly when the
\* corresponding ==, in or has filter does, and on every feature evaluates to
\* the negation of what the positive filter evaluates to.
C4_NegationOfPositive ==
    RequestIsFilter({"!=", "!in", "!has"}) =>
        LET positive == FilterOutcome(PositiveFilter, evaluator.globals, evaluator.feature)
        IN /\ (compiled.result = "success") = ~positive.thrown
           /\ lastCall.called =>
                /\ lastCall.val \in {Bool(TRUE), Bool(FALSE)}
                /\ lastCall.val = Bool(positive.val = Bool(FALSE))

C4_Witness ==
    /\ RequestIsFilter({"!="})
    /\ RequestProperty = "x"
    /\ request.raw.items[3].v = Num(1)
    /\ lastCall.called
    /\ evaluator.feature.properties["x"] = Undef
    /\ lastCall.val = Bool(TRUE)

\* C5: the result of an in / !in filter depends only on the set of listed
\* values: the same values in reverse order, repeated up to 201 operands
\* (199 when the filter itself lists 201), construct alike and give the same
\* result on every feature.
C5_InRepresentationInvariant ==
    (RequestIsFilter({"in", "!in"}) /\ Len(request.raw.items) > 2) =>
        LET n == IF Len(RequestValues) = 201 THEN 199 ELSE 201
            other == InFilter(RequestOp, RequestProperty,
                              Reverse(DistinctValues(RequestValues)), n)
            outcome == FilterOutcome(other, evaluator.globals, evaluator.feature)
        IN /\ (compiled.result = "success") = ~outcome.thrown
           /\ lastCall.called => lastCall.val = outcome.val

C5_Witness ==
    /\ RequestIsFilter({"in"})
    /\ Len(RequestValues) = 199
    /\ Cardinality(Range(RequestValues)) = 2
    /\ lastCall.called
    /\ lastCall.val = Bool(TRUE)

\* C6 as stated: in property context every expression with more than one
\* zoom curve fails to compile with the multiple-curve error.
C6_AlwaysMultipleCurveError ==
    (PropertyRequest /\ ZoomCurveCount(request.raw) > 1) => FailsWith(MultipleCurves)

\* C6 as amended: in property context compilation fails with the
\* multiple-curve error exactly when more than one zoom curve is in top-level
\* position (let results, coalesce arguments); several zoom curves none of
\* which is in top-level position (operands of "+") fail with the
\* top-level-curve error instead.
C6_MultipleCurvesRejected ==
    PropertyRequest =>
        /\ FailsWith(MultipleCurves) <=> TopLevelCurveCount(request.raw) > 1
        /\ (ZoomCurveCount(request.raw) > 1 /\ TopLevelCurveCount(request.raw) = 0)
                => FailsWith(TopLevelOnly)

C6_Witness ==
    /\ request.raw = PlusE(ZoomStep, ZoomStep)
    /\ request.options.context = "property"
    /\ FailsWith(TopLevelOnly)

\* C7: a property expression that is not zoom-constant compiles only if zoom
\* is referenced exactly once, as the input of the one curve in top-level
\* position.
C7_ZoomOnlyAsCurveInput ==
    (request.api = "createExpression" /\ compiled.result = "success"
        /\ compiled.context = "property" /\ ~compiled.isZoomConstant) =>
        /\ TopLevelCurveCount(request.raw) = 1
        /\ ZoomRefCount(request.raw) = 1

\* C8 as stated: a let compiles exactly when every initializer refers only to
\* the enclosing scope and the bindings declared before it, and the result
\* only to the enclosing scope and the bindings of the let.
C8_SequentialScope ==
    request.raw \in LetExpressions =>
        (compiled.result = "success") = WellScoped(request.raw, {}, TRUE)

\* C8 as amended: every initializer of a let sees exactly the enclosing scope
\* (no binding of its own let, earlier or later), the result sees the
\* enclosing scope and all bindings of the let; any other reference is a
\* compile error.
C8_EnclosingScope ==
    request.raw \in LetExpressions =>
        /\ (compiled.result = "success") = WellScoped(request.raw, {}, FALSE)
        /\ request.raw = Let2E("a", VarE("b"), "b", N(1), VarE("a"))
                => compiled.result = "error"

C8_Witness ==
    /\ request.raw = LetE("c", N(2), Let2E("a", VarE("c"), "b", N(1), VarE("b")))
    /\ compiled.result = "success"
    /\ lastCall.called
    /\ lastCall.val = Num(1)

\* C9: ["has", "$id"] is true exactly on the features that have an id,
\* ["has", "$type"] is true and ["!has", "$type"] false on every feature.
C9_HasPseudoProperties ==
    (RequestIsFilter({"has", "!has"}) /\ lastCall.called) =>
        /\ (RequestOp = "has" /\ RequestProperty = "$id")
                => lastCall.val = Bool(evaluator.feature.id # Undef)
        /\ (RequestOp = "has" /\ RequestProperty = "$type") => lastCall.val = Bool(TRUE)
        /\ (RequestOp = "!has" /\ RequestProperty = "$type") => lastCall.val = Bool(FALSE)

C9_Witness ==
    /\ RequestIsFilter({"has"})
    /\ RequestProperty = "$id"
    /\ evaluator.feature.id # Undef
    /\ lastCall.called
    /\ lastCall.val = Bool(TRUE)

====
